---- MODULE Spec2Model ----
(***************************************************************************)
(* Model of hwy/nanobenchmark.cc: the robust statistics (CountingSort,     *)
(* MinRange, ModeOfSorted, Median, MedianAbsoluteDeviation), the adaptive  *)
(* sampler SampleUntilStable, the input planner (UniqueInputs, NumSkip,    *)
(* ReplicateInputs, FillSubset) and the orchestrator Measure.              *)
(*                                                                         *)
(* Ticks and size_t are 64-bit unsigned in the source.  The model keeps    *)
(* the wraparound but scales the width to TicksBits bits: every operation  *)
(* the source performs on a Ticks/size_t value is taken modulo W.          *)
(* NANOBENCHMARK_CHECK expands to nothing (its use at line 285 applies     *)
(* ->empty() to a pointer to an integer, which only compiles when the      *)
(* macro discards its argument), so a failed check has no effect.          *)
(***************************************************************************)
EXTENDS Integers, Sequences, FiniteSets, TLC

VARIABLES
  \* ---- Mode(values, num_values): CountingSort, then ModeOfSorted
  st_pc,        \* position inside Mode
  st_input,     \* the array as passed by the caller
  values,       \* the array, sorted in place by CountingSort
  cs_p,         \* CountingSort's write cursor p - values on exit
  idx_begin,    \* ModeOfSorted
  half_count,   \* ModeOfSorted
  mr_idx,       \* MinRange: idx
  min_range,    \* MinRange
  min_idx,      \* MinRange
  mr_begin,     \* MinRange: its parameter idx_begin
  st_reads,     \* indices of sorted[] read by the last step
  st_ret,       \* value returned by ModeOfSorted
  \* ---- SampleUntilStable(max_rel_mad, rel_mad, p, lambda)
  sus_pc,           \* position inside SampleUntilStable
  sus_p,            \* Params p, with max_rel_mad and ticks_per_eval
  timer_resolution, \* the file-scope constant timer_resolution
  seed,             \* the first t1 - t0
  est,
  samples_per_eval,
  samples,
  eval,
  sus_i,            \* i of the inner loop
  abs_mad,
  rel_mad,          \* *rel_mad, as the fraction num/den (den = 0: inf or NaN)
  sus_ret,          \* the value returned
  rounds,           \* history: closure calls, est and abs_mad of each finished round
  \* ---- Measure(func, arg, inputs, num_inputs, results, p)
  m_pc,          \* position inside Measure
  inputs,        \* the caller's inputs[0 .. num_inputs)
  p,             \* Params p: subset_ratio, precision_divisor
  unique,
  ns_i,          \* NumSkip: position in unique
  min_duration,  \* NumSkip
  num_skip,
  full,
  subset,
  overhead,
  overhead_skip,
  max_rel_mad,
  total,
  total_skip,
  m_i,           \* i of the loop over unique
  results,       \* the caller's results[], Unwritten where nothing was written
  m_ret,         \* the value returned
  sus_calls,     \* history: calls of SampleUntilStable so far
  \* ---- FillSubset(full, input_to_skip, num_skip, subset), its locals
  fs_pc,
  input_to_skip,
  omit,
  occurrence,
  idx_omit,
  idx_subset,
  fs_pos         \* position of the range-for in full

st_vars == <<st_pc, st_input, values, cs_p, idx_begin, half_count, mr_idx,
             min_range, min_idx, mr_begin, st_reads, st_ret>>

sus_vars == <<sus_pc, sus_p, timer_resolution, seed, est, samples_per_eval, samples,
              eval, sus_i, abs_mad, rel_mad, sus_ret, rounds>>

m_vars == <<m_pc, inputs, p, unique, ns_i, min_duration, num_skip, full, subset,
            overhead, overhead_skip, max_rel_mad, total, total_skip, m_i, results,
            m_ret, sus_calls>>

fs_vars == <<fs_pc, input_to_skip, omit, occurrence, idx_omit, idx_subset, fs_pos>>

vars == <<st_vars, sus_vars, m_vars, fs_vars>>

-----------------------------------------------------------------------------
(* Bounds and widths *)

\* Width of Ticks / size_t in the model (64 in the source).
TicksBits == 8

W == 2 ^ TicksBits

\* uint32_t has half the width of size_t
W32 == 2 ^ (TicksBits \div 2)

\* std::numeric_limits<T>::max() for T = Ticks, also ~Ticks(0)
TicksMax == W - 1

\* Longest array of arbitrary order handed to Mode.
MaxLen == 4

\* Longest already sorted array handed to Mode.
MaxSortedLen == 8

\* int is 32-bit.
INT_MAX == 2147483647

\* Largest p.max_evals.
MaxEvals == 2

\* Longest full handed to FillSubset on its own.
MaxFull == 5

\* Largest num_skip handed to FillSubset on its own.
MaxSkip == 2

\* Largest num_inputs handed to ReplicateInputs on its own.
MaxInputs == 2

\* Sample values: small ones, and the ones around the top bit and the maximum.
StatVals == {0, 1, 3, W \div 2, W - 1}

-----------------------------------------------------------------------------
(* Unsigned arithmetic of the source *)

Add(a, b) == (a + b) % W

Sub(a, b) == (a - b + W) % W

Min(a, b) == IF a < b THEN a ELSE b

Max(a, b) == IF a > b THEN a ELSE b

\* sorted[i] with a 0-based index
At(s, i) == s[i + 1]

Range(s) == {s[k] : k \in 1..Len(s)}

Count(s, v) == Cardinality({k \in 1..Len(s) : s[k] = v})

IsSorted(s) == \A k \in 1..(Len(s) - 1) : s[k] <= s[k + 1]

-----------------------------------------------------------------------------
(* CountingSort *)

\* std::find_if over unique: position of the pair holding value, 0 for end()
RECURSIVE FindIf(_, _, _)
FindIf(uniq, value, k) ==
  IF k > Len(uniq) THEN 0
  ELSE IF uniq[k][1] = value THEN k
  ELSE FindIf(uniq, value, k + 1)

\* mutant of IncCount: the frequency of a repeated value is not incremented
IncCountLost(c) == c

\* ++pos->second on an int; signed overflow wraps in the builds of interest
IncCount(c) == IF c < INT_MAX THEN c + 1 ELSE (-INT_MAX) - 1

\* first loop: unique values and their frequency, in order of first occurrence
RECURSIVE CountUnique(_, _, _)
CountUnique(vals, i, uniq) ==
  IF i > Len(vals) THEN uniq
  ELSE LET value == vals[i]
           pos == FindIf(uniq, value, 1)
       IN CountUnique(vals, i + 1,
            IF pos = 0 THEN Append(uniq, <<value, 1>>)
            ELSE [uniq EXCEPT ![pos] = <<@[1], IncCount(@[2])>>])

\* operator< of std::pair
PairLess(a, b) == a[1] < b[1] \/ (a[1] = b[1] /\ a[2] < b[2])

\* std::sort(unique.begin(), unique.end())
RECURSIVE SortPairs(_)
SortPairs(uniq) ==
  IF Len(uniq) = 0 THEN <<>>
  ELSE LET m == CHOOSE k \in 1..Len(uniq) :
                  \A j \in 1..Len(uniq) : j = k \/ PairLess(uniq[k], uniq[j])
       IN <<uniq[m]>> \o
          SortPairs(SubSeq(uniq, 1, m - 1) \o SubSeq(uniq, m + 1, Len(uniq)))

\* std::fill(p, p + count, value): writes vals[p .. p + count - 1] (0-based)
Fill(vals, cur, count, value) ==
  [k \in 1..Len(vals) |-> IF k - 1 >= cur /\ k - 1 < cur + count THEN value ELSE vals[k]]

\* second loop: write that many copies of each unique value, advancing p
RECURSIVE WriteCounts(_, _, _, _)
WriteCounts(vals, uniq, k, cur) ==
  IF k > Len(uniq) THEN [values |-> vals, p |-> cur]
  ELSE WriteCounts(Fill(vals, cur, uniq[k][2], uniq[k][1]), uniq, k + 1,
                   cur + uniq[k][2])

\* the whole function: the array afterwards and the final cursor p - values
CountingSort(vals) ==
  WriteCounts(vals, SortPairs(CountUnique(vals, 1, <<>>)), 1, 0)

-----------------------------------------------------------------------------
(* MinRange and ModeOfSorted *)

\* body of MinRange's loop for one idx, given lo = sorted[idx] and
\* hi = sorted[idx + half_count]: the new <<min_range, min_idx>>
MinRangeIter(lo, hi, idx, mr, mi) ==
  LET range == Sub(hi, lo)
  IN IF range < mr THEN <<range, idx>> ELSE <<mr, mi>>

\* loop condition of MinRange
MinRangeContinue(idx, begin, half) == idx < begin + half

RECURSIVE MinRangeLoop(_, _, _, _, _, _)
MinRangeLoop(sorted, begin, half, idx, mr, mi) ==
  IF MinRangeContinue(idx, begin, half)
  THEN LET r == MinRangeIter(At(sorted, idx), At(sorted, idx + half), idx, mr, mi)
       IN MinRangeLoop(sorted, begin, half, idx + 1, r[1], r[2])
  ELSE mi

MinRange(sorted, begin, half) == MinRangeLoop(sorted, begin, half, begin, TicksMax, 0)

\* (x + sorted[idx_begin + 1] + 1) / 2 in unsigned arithmetic
Average(x, y) == Add(Add(x, y), 1) \div 2

\* mutant of HalfInit: the half is rounded up
HalfInitRoundUp(num_values) == (num_values + 1) \div 2

\* size_t half_count = num_values / 2
HalfInit(num_values) == num_values \div 2

RECURSIVE ModeLoop(_, _, _)
ModeLoop(sorted, begin, half) ==
  IF half > 1 THEN ModeLoop(sorted, MinRange(sorted, begin, half), half \div 2)
  ELSE IF half = 0 THEN At(sorted, begin)
  ELSE Average(At(sorted, begin), At(sorted, begin + 1))

ModeOfSorted(sorted) == ModeLoop(sorted, 0, HalfInit(Len(sorted)))

Mode(vals) == ModeOfSorted(CountingSort(vals).values)

-----------------------------------------------------------------------------
(* Mode(values, num_values) step by step: CountingSort as one step, then    *)
(* ModeOfSorted and MinRange one loop iteration at a time, so that every   *)
(* index read is visible.                                                  *)

\* nondecreasing sequences of length n over StatVals
RECURSIVE NonDecr(_)
NonDecr(n) ==
  IF n = 0 THEN {<<>>}
  ELSE {Append(t[1], t[2]) :
          t \in {u \in NonDecr(n - 1) \X StatVals :
                   Len(u[1]) = 0 \/ u[1][Len(u[1])] <= u[2]}}

\* the arrays handed to Mode: any order up to MaxLen, sorted up to MaxSortedLen
ModeInputs ==
  UNION {[1..n -> StatVals] : n \in 0..MaxLen}
    \cup UNION {NonDecr(n) : n \in 0..MaxSortedLen}

\* a read of sorted[i]: the element, or any value when i is out of bounds
ReadAt(s, i) == IF i < Len(s) THEN {At(s, i)} ELSE StatVals

StInit ==
  /\ st_input \in ModeInputs
  /\ values = st_input
  /\ st_pc = "CountingSort"
  /\ cs_p = 0
  /\ idx_begin = 0
  /\ half_count = 0
  /\ mr_idx = 0
  /\ min_range = 0
  /\ min_idx = 0
  /\ mr_begin = 0
  /\ st_reads = {}
  /\ st_ret = 0
  /\ sus_pc = "idle"
  /\ sus_p = <<>>
  /\ timer_resolution = 0
  /\ seed = 0
  /\ est = 0
  /\ samples_per_eval = 0
  /\ samples = <<>>
  /\ eval = 0
  /\ sus_i = 0
  /\ abs_mad = 0
  /\ rel_mad = [num |-> 0, den |-> 1]
  /\ sus_ret = 0
  /\ rounds = <<>>
  /\ m_pc = "idle"
  /\ inputs = <<>>
  /\ p = <<>>
  /\ unique = <<>>
  /\ ns_i = 0
  /\ min_duration = 0
  /\ num_skip = 0
  /\ full = <<>>
  /\ subset = <<>>
  /\ overhead = 0
  /\ overhead_skip = 0
  /\ max_rel_mad = [num |-> 0, den |-> 1]
  /\ total = 0
  /\ total_skip = 0
  /\ m_i = 0
  /\ results = <<>>
  /\ m_ret = 0
  /\ sus_calls = 0
  /\ fs_pc = "idle"
  /\ input_to_skip = 0
  /\ omit = <<>>
  /\ occurrence = 0
  /\ idx_omit = 0
  /\ idx_subset = 0
  /\ fs_pos = 0

\* CountingSort(values, num_values); an empty array goes no further
DoCountingSort ==
  /\ st_pc = "CountingSort"
  /\ values' = CountingSort(values).values
  /\ cs_p' = CountingSort(values).p
  /\ st_pc' = IF Len(values) = 0 THEN "sorted" ELSE "ModeOfSorted"
  /\ UNCHANGED <<st_input, idx_begin, half_count, mr_idx, min_range, min_idx,
                 mr_begin, st_reads, st_ret>>
  /\ UNCHANGED <<sus_vars, m_vars, fs_vars>>

\* entry of ModeOfSorted
ModeOfSortedEnter ==
  /\ st_pc = "ModeOfSorted"
  /\ idx_begin' = 0
  /\ half_count' = HalfInit(Len(values))
  /\ st_pc' = "while"
  /\ st_reads' = {}
  /\ UNCHANGED <<st_input, values, cs_p, mr_idx, min_range, min_idx, mr_begin, st_ret>>
  /\ UNCHANGED <<sus_vars, m_vars, fs_vars>>

\* while (half_count > 1): call MinRange(sorted, idx_begin, half_count)
MinRangeEnter ==
  /\ st_pc = "while"
  /\ half_count > 1
  /\ mr_begin' = idx_begin
  /\ mr_idx' = idx_begin
  /\ min_range' = TicksMax
  /\ min_idx' = 0
  /\ st_pc' = "MinRange"
  /\ st_reads' = {}
  /\ UNCHANGED <<st_input, values, cs_p, idx_begin, half_count, st_ret>>
  /\ UNCHANGED <<sus_vars, m_vars, fs_vars>>

\* one iteration of MinRange's loop
MinRangeStep ==
  /\ st_pc = "MinRange"
  /\ MinRangeContinue(mr_idx, mr_begin, half_count)
  /\ \E lo \in ReadAt(values, mr_idx), hi \in ReadAt(values, mr_idx + half_count) :
       LET r == MinRangeIter(lo, hi, mr_idx, min_range, min_idx)
       IN /\ min_range' = r[1]
          /\ min_idx' = r[2]
  /\ st_reads' = {mr_idx, mr_idx + half_count}
  /\ mr_idx' = mr_idx + 1
  /\ UNCHANGED <<st_pc, st_input, values, cs_p, idx_begin, half_count, mr_begin, st_ret>>
  /\ UNCHANGED <<sus_vars, m_vars, fs_vars>>

\* MinRange returns min_idx; half_count >>= 1
MinRangeReturn ==
  /\ st_pc = "MinRange"
  /\ ~MinRangeContinue(mr_idx, mr_begin, half_count)
  /\ idx_begin' = min_idx
  /\ half_count' = half_count \div 2
  /\ st_pc' = "while"
  /\ st_reads' = {}
  /\ UNCHANGED <<st_input, values, cs_p, mr_idx, min_range, min_idx, mr_begin, st_ret>>
  /\ UNCHANGED <<sus_vars, m_vars, fs_vars>>

\* after the loop: return x, or the average of x and its successor
ModeOfSortedReturn ==
  /\ st_pc = "while"
  /\ ~(half_count > 1)
  /\ \E x \in ReadAt(values, idx_begin) :
       IF half_count = 0
       THEN /\ st_ret' = x
            /\ st_reads' = {idx_begin}
       ELSE \E y \in ReadAt(values, idx_begin + 1) :
              /\ st_ret' = Average(x, y)
              /\ st_reads' = {idx_begin, idx_begin + 1}
  /\ st_pc' = "done"
  /\ UNCHANGED <<st_input, values, cs_p, idx_begin, half_count, mr_idx, min_range,
                 min_idx, mr_begin>>
  /\ UNCHANGED <<sus_vars, m_vars, fs_vars>>

StNext ==
  \/ DoCountingSort
  \/ ModeOfSortedEnter
  \/ MinRangeEnter
  \/ MinRangeStep
  \/ MinRangeReturn
  \/ ModeOfSortedReturn

StatsSpec == StInit /\ [][StNext]_vars

\* the step-by-step run and the operator give the same mode
StepsAgree == st_pc = "done" => st_ret = ModeOfSorted(values)

-----------------------------------------------------------------------------
(* Claims about the robust statistics, checked under StatsSpec *)

C6_ModeWithinMinMax ==
  st_pc = "done" =>
    /\ At(values, 0) <= st_ret
    /\ st_ret <= At(values, Len(values) - 1)

\* C10: every index MinRange and the final averaging step read is inside the
\* array (idx + half_count < num_values at every iteration, idx_begin + 1 <
\* num_values when half_count ends at 1), and the halving loop ends with
\* half_count <= 1, MinRange's idx never passing idx_begin + half_count.
C10_ReadsInBoundsAndLoopEnds ==
  /\ st_reads \subseteq 0..(Len(values) - 1)
  /\ (st_pc = "MinRange" /\ MinRangeContinue(mr_idx, mr_begin, half_count))
       => mr_idx + half_count < Len(values)
  /\ (st_pc = "while" /\ half_count = 1) => idx_begin + 1 < Len(values)
  /\ st_pc = "done" => half_count <= 1
  /\ st_pc \in {"while", "MinRange"} => idx_begin + 2 * half_count <= Len(values)
  /\ st_pc = "MinRange" => mr_idx <= mr_begin + half_count

\* C10 witness: a run that called MinRange twice, the second time from a
\* non-zero idx_begin, and ended by averaging two elements.
C10_Witness ==
  /\ st_pc = "done"
  /\ Len(values) >= 8
  /\ mr_begin > 0
  /\ idx_begin > mr_begin
  /\ half_count = 1
  /\ st_reads = {idx_begin, idx_begin + 1}

-----------------------------------------------------------------------------
(* Median and MedianAbsoluteDeviation *)

\* std::sort on an array of integers
RECURSIVE StdSort(_)
StdSort(vals) ==
  IF Len(vals) = 0 THEN <<>>
  ELSE LET m == CHOOSE k \in 1..Len(vals) :
                  /\ \A j \in 1..Len(vals) : vals[k] <= vals[j]
                  /\ \A j \in 1..(k - 1) : vals[j] # vals[k]
       IN <<vals[m]>> \o StdSort(SubSeq(vals, 1, m - 1) \o SubSeq(vals, m + 1, Len(vals)))

\* Median: the array sorted in place, and the value returned
Median(vals) ==
  LET sorted == StdSort(vals)
      half == Len(vals) \div 2
  IN [values |-> sorted,
      ret |-> IF Len(vals) % 2 = 1 THEN At(sorted, half)
              ELSE Add(Add(At(sorted, half), At(sorted, half - 1)), 1) \div 2]

\* int64_t(x) of an unsigned value
ToSigned(x) == IF x >= W \div 2 THEN x - W ELSE x

\* static_cast<T>(std::abs(int64_t(value) - int64_t(median)))
AbsDeviation(value, median) ==
  LET d == ToSigned((ToSigned(value) - ToSigned(median)) % W)
  IN (IF d < 0 THEN -d ELSE d) % W

MedianAbsoluteDeviation(vals, median) ==
  Median([k \in 1..Len(vals) |-> AbsDeviation(vals[k], median)]).ret

-----------------------------------------------------------------------------
(* SampleUntilStable, one timed call of the closure per step *)

\* what timer::Stop() - timer::Start() can give around one call of the closure
Deltas == {0, 3}

\* the Params fields SampleUntilStable reads; ticks_per_eval stands for
\* static_cast<size_t>(ticks_per_second * p.seconds_per_eval), and
\* max_rel_mad is the argument of that name (0.0 in Overhead), as a fraction
SusParams ==
  [max_evals : 0..MaxEvals,
   min_samples_per_eval : {1, 2},
   min_mode_samples : {3, 27},
   ticks_per_eval : {0, 6},
   max_rel_mad : {[num |-> 0, den |-> 1], [num |-> 1, den |-> 2]}]

\* values of the file-scope timer_resolution
TimerResolutions == {0, 27}

\* initial samples_per_eval, from the seed estimate
InitialSamplesPerEval(par, e) ==
  Max(IF e = 0 THEN par.min_samples_per_eval ELSE par.ticks_per_eval \div e,
      par.min_samples_per_eval)

\* const timer::Ticks max_abs_mad = (timer_resolution + 99) / 100
MaxAbsMad(res) == Add(res, 99) \div 100

\* static_cast<double>(abs_mad) / static_cast<double>(est)
RelMad(mad, e) == [num |-> mad, den |-> e]

\* a <= b on doubles, a = num/den with den = 0 for inf and NaN, b finite
LeqDouble(a, b) == a.den # 0 /\ a.num * b.den <= b.num * a.den

\* the test that ends the sampling
Stable(rel, mad, par, res) == LeqDouble(rel, par.max_rel_mad) \/ mad <= MaxAbsMad(res)

\* mutant of NextSamplesPerEval: the budget grows by one instead of doubling
NextSamplesPerEvalPlusOne(n) == (n + 1) % W

\* samples_per_eval *= 2
NextSamplesPerEval(n) == (n * 2) % W

\* Mode for many samples, Median for few: the sorted samples and the estimate
CentralEstimate(smp, par) ==
  IF Len(smp) >= par.min_mode_samples
  THEN [values |-> CountingSort(smp).values, ret |-> Mode(smp)]
  ELSE Median(smp)

SusInit ==
  /\ sus_pc = "start"
  /\ sus_p \in SusParams
  /\ timer_resolution \in TimerResolutions
  /\ seed = 0
  /\ est = 0
  /\ samples_per_eval = 0
  /\ samples = <<>>
  /\ eval = 0
  /\ sus_i = 0
  /\ abs_mad = 0
  /\ rel_mad = [num |-> 0, den |-> 1]
  /\ sus_ret = 0
  /\ rounds = <<>>
  /\ st_pc = "idle"
  /\ st_input = <<>>
  /\ values = <<>>
  /\ cs_p = 0
  /\ idx_begin = 0
  /\ half_count = 0
  /\ mr_idx = 0
  /\ min_range = 0
  /\ min_idx = 0
  /\ mr_begin = 0
  /\ st_reads = {}
  /\ st_ret = 0
  /\ m_pc = "idle"
  /\ inputs = <<>>
  /\ p = <<>>
  /\ unique = <<>>
  /\ ns_i = 0
  /\ min_duration = 0
  /\ num_skip = 0
  /\ full = <<>>
  /\ subset = <<>>
  /\ overhead = 0
  /\ overhead_skip = 0
  /\ max_rel_mad = [num |-> 0, den |-> 1]
  /\ total = 0
  /\ total_skip = 0
  /\ m_i = 0
  /\ results = <<>>
  /\ m_ret = 0
  /\ sus_calls = 0
  /\ fs_pc = "idle"
  /\ input_to_skip = 0
  /\ omit = <<>>
  /\ occurrence = 0
  /\ idx_omit = 0
  /\ idx_subset = 0
  /\ fs_pos = 0

\* the single timed call that seeds samples_per_eval, up to the loop
SusSeed ==
  /\ sus_pc = "start"
  /\ \E d \in Deltas :
       /\ seed' = d
       /\ est' = d
       /\ samples_per_eval' = InitialSamplesPerEval(sus_p, d)
       /\ samples' = <<d>>
  /\ rel_mad' = [num |-> 0, den |-> 1]
  /\ eval' = 0
  /\ sus_pc' = "for"
  /\ UNCHANGED <<sus_p, timer_resolution, sus_i, abs_mad, sus_ret, rounds>>
  /\ UNCHANGED <<st_vars, m_vars, fs_vars>>

\* eval < p.max_evals: start a round
SusRound ==
  /\ sus_pc = "for"
  /\ eval < sus_p.max_evals
  /\ sus_i' = 0
  /\ sus_pc' = "sample"
  /\ UNCHANGED <<sus_p, timer_resolution, seed, est, samples_per_eval, samples, eval,
                 abs_mad, rel_mad, sus_ret, rounds>>
  /\ UNCHANGED <<st_vars, m_vars, fs_vars>>

\* one timed call of the closure inside a round
SusSample ==
  /\ sus_pc = "sample"
  /\ sus_i < samples_per_eval
  /\ \E d \in Deltas : samples' = Append(samples, d)
  /\ sus_i' = sus_i + 1
  /\ UNCHANGED <<sus_pc, sus_p, timer_resolution, seed, est, samples_per_eval, eval,
                 abs_mad, rel_mad, sus_ret, rounds>>
  /\ UNCHANGED <<st_vars, m_vars, fs_vars>>

\* end of a round: estimate, deviation, and either return or double the budget
SusEstimate ==
  /\ sus_pc = "sample"
  /\ ~(sus_i < samples_per_eval)
  /\ LET c == CentralEstimate(samples, sus_p)
         mad == MedianAbsoluteDeviation(c.values, c.ret)
         rel == RelMad(mad, c.ret)
     IN /\ samples' = c.values
        /\ est' = c.ret
        /\ abs_mad' = mad
        /\ rel_mad' = rel
        /\ rounds' = Append(rounds, [calls |-> sus_i, est |-> c.ret, abs_mad |-> mad])
        /\ IF Stable(rel, mad, sus_p, timer_resolution)
           THEN /\ sus_ret' = c.ret
                /\ sus_pc' = "done"
                /\ UNCHANGED <<eval, samples_per_eval>>
           ELSE /\ eval' = eval + 1
                /\ samples_per_eval' = NextSamplesPerEval(samples_per_eval)
                /\ sus_pc' = "for"
                /\ UNCHANGED sus_ret
  /\ UNCHANGED <<sus_p, timer_resolution, seed, sus_i>>
  /\ UNCHANGED <<st_vars, m_vars, fs_vars>>

\* the loop ran p.max_evals rounds without a stable one: return est
SusExhausted ==
  /\ sus_pc = "for"
  /\ ~(eval < sus_p.max_evals)
  /\ sus_ret' = est
  /\ sus_pc' = "done"
  /\ UNCHANGED <<sus_p, timer_resolution, seed, est, samples_per_eval, samples, eval,
                 sus_i, abs_mad, rel_mad, rounds>>
  /\ UNCHANGED <<st_vars, m_vars, fs_vars>>

SusNext ==
  \/ SusSeed
  \/ SusRound
  \/ SusSample
  \/ SusEstimate
  \/ SusExhausted

SamplerSpec == SusInit /\ [][SusNext]_vars

-----------------------------------------------------------------------------
(* Claims about SampleUntilStable, checked under SamplerSpec *)

\* C3 (as claimed): SampleUntilStable never returns a zero estimate.
C3_NeverReturnsZero == sus_pc = "done" => sus_ret # 0

\* the number of samples of round 0 according to the claim
C7_FirstBudget ==
  IF seed = 0 THEN sus_p.min_samples_per_eval
  ELSE Max(sus_p.min_samples_per_eval, sus_p.ticks_per_eval \div seed)

\* the claim's test on the figures of finished round r (counted from 1 here)
C7_RoundStable(r) ==
  \/ /\ rounds[r].est # 0
     /\ rounds[r].abs_mad * sus_p.max_rel_mad.den
          <= sus_p.max_rel_mad.num * rounds[r].est
  \/ rounds[r].abs_mad <= ((timer_resolution + 99) % W) \div 100

\* C7: at most max_evals rounds run; round r calls the closure s * 2^r times;
\* the sampler returns at the end of the first round whose figures pass the
\* test, with that round's estimate, and otherwise after exactly max_evals
\* rounds with the last estimate; no round is left unfinished.
C7_RoundsAndReturn ==
  /\ Len(rounds) <= sus_p.max_evals
  /\ \A r \in 1..Len(rounds) : rounds[r].calls = C7_FirstBudget * 2 ^ (r - 1)
  /\ \A r \in 1..(Len(rounds) - 1) : ~C7_RoundStable(r)
  /\ sus_pc = "sample" => /\ Len(rounds) = eval
                          /\ eval < sus_p.max_evals
                          /\ sus_i <= C7_FirstBudget * 2 ^ eval
  /\ sus_pc = "for" => \A r \in 1..Len(rounds) : ~C7_RoundStable(r)
  /\ sus_pc = "done" =>
       IF Len(rounds) > 0 /\ C7_RoundStable(Len(rounds))
       THEN sus_ret = rounds[Len(rounds)].est
       ELSE /\ Len(rounds) = sus_p.max_evals
            /\ Len(rounds) > 0 => sus_ret = rounds[Len(rounds)].est
  /\ sus_pc \in {"start", "for", "sample", "done"}

\* C7 witness: a return in the second round, after a first round that did
\* not pass the test, with a budget taken from ticks_per_eval / seed.
C7_Witness ==
  /\ sus_pc = "done"
  /\ Len(rounds) = 2
  /\ C7_RoundStable(2)
  /\ ~C7_RoundStable(1)
  /\ seed # 0
  /\ rounds[1].calls = 2
  /\ rounds[2].calls = 4
  /\ sus_p.min_samples_per_eval = 1

-----------------------------------------------------------------------------
(* FillSubset *)

\* FuncInput values handed to FillSubset on its own
FillVals == {1, 2, 3}

\* the elements of a set of numbers in ascending order (std::sort)
RECURSIVE Ascending(_)
Ascending(S) ==
  IF S = {} THEN <<>>
  ELSE LET lo == CHOOSE x \in S : \A y \in S : x <= y
       IN <<lo>> \o Ascending(S \ {lo})

\* omit after iota, shuffle, resize(num_skip) and sort: the shuffle may leave
\* any k of the indices 0 .. count-1 in front; with k > count the resize
\* appends zeros
OmitChoices(count, k) ==
  IF k <= count
  THEN {Ascending(S) : S \in {T \in SUBSET (0..(count - 1)) : Cardinality(T) = k}}
  ELSE {[j \in 1..k |-> IF j <= k - count THEN 0 ELSE j - (k - count) - 1]}

\* mutant of OccurrenceInit: the counter starts one lower, so the first
\* occurrence is numbered ~0u instead of 0
OccurrenceInitOneLower == W32 - 2

\* uint32_t occurrence = ~0u
OccurrenceInit == W32 - 1

\* if (idx_subset < subset->size()) (*subset)[idx_subset++] = next
CopyNext(c, next) ==
  IF c.idx_subset < Len(c.subset)
  THEN [c EXCEPT !.subset[c.idx_subset + 1] = next, !.idx_subset = @ + 1]
  ELSE c

\* body of the range-for over full, on the cursors
\* c = [subset, occurrence, idx_omit, idx_subset]
FillIter(c, next, v, k, om) ==
  IF next = v
  THEN LET d == [c EXCEPT !.occurrence = (@ + 1) % W32]
       IN IF d.idx_omit < k /\ d.occurrence = om[d.idx_omit + 1]
          THEN [d EXCEPT !.idx_omit = @ + 1]
          ELSE CopyNext(d, next)
  ELSE CopyNext(c, next)

RECURSIVE FillLoop(_, _, _, _, _, _)
FillLoop(c, f, pos, v, k, om) ==
  IF pos >= Len(f) THEN c
  ELSE FillLoop(FillIter(c, At(f, pos), v, k, om), f, pos + 1, v, k, om)

\* the subsets FillSubset(f, v, k, &sub) can leave in sub
FillSubset(f, v, k, sub) ==
  {FillLoop([subset |-> sub, occurrence |-> OccurrenceInit, idx_omit |-> 0,
             idx_subset |-> 0], f, 0, v, k, om).subset :
     om \in OmitChoices(Count(f, v), k)}

\* the calls checked: v occurs at least k >= 1 times in f, as Measure calls it
FillCalls ==
  {c \in [full : UNION {[1..n -> FillVals] : n \in 0..MaxFull},
          input_to_skip : FillVals,
          num_skip : 1..MaxSkip] :
     Count(c.full, c.input_to_skip) >= c.num_skip}

\* subset before the call: value-initialised, or stale
SubsetBefore(n, v) == {[j \in 1..n |-> 0], [j \in 1..n |-> v]}

FillInit ==
  /\ \E c \in FillCalls :
       /\ full = c.full
       /\ input_to_skip = c.input_to_skip
       /\ num_skip = c.num_skip
       /\ subset \in SubsetBefore(Len(c.full) - c.num_skip, c.input_to_skip)
  /\ fs_pc = "enter"
  /\ omit = <<>>
  /\ occurrence = 0
  /\ idx_omit = 0
  /\ idx_subset = 0
  /\ fs_pos = 0
  /\ m_pc = "idle"
  /\ inputs = <<>>
  /\ p = <<>>
  /\ unique = <<>>
  /\ ns_i = 0
  /\ min_duration = 0
  /\ overhead = 0
  /\ overhead_skip = 0
  /\ max_rel_mad = [num |-> 0, den |-> 1]
  /\ total = 0
  /\ total_skip = 0
  /\ m_i = 0
  /\ results = <<>>
  /\ m_ret = 0
  /\ sus_calls = 0
  /\ st_pc = "idle"
  /\ st_input = <<>>
  /\ values = <<>>
  /\ cs_p = 0
  /\ idx_begin = 0
  /\ half_count = 0
  /\ mr_idx = 0
  /\ min_range = 0
  /\ min_idx = 0
  /\ mr_begin = 0
  /\ st_reads = {}
  /\ st_ret = 0
  /\ sus_pc = "idle"
  /\ sus_p = <<>>
  /\ timer_resolution = 0
  /\ seed = 0
  /\ est = 0
  /\ samples_per_eval = 0
  /\ samples = <<>>
  /\ eval = 0
  /\ sus_i = 0
  /\ abs_mad = 0
  /\ rel_mad = [num |-> 0, den |-> 1]
  /\ sus_ret = 0
  /\ rounds = <<>>

\* count, omit and the three cursors
FillEnter ==
  /\ fs_pc = "enter"
  /\ omit' \in OmitChoices(Count(full, input_to_skip), num_skip)
  /\ occurrence' = OccurrenceInit
  /\ idx_omit' = 0
  /\ idx_subset' = 0
  /\ fs_pos' = 0
  /\ fs_pc' = "loop"
  /\ UNCHANGED <<input_to_skip, m_vars, st_vars, sus_vars>>

\* one element of full
FillStep ==
  /\ fs_pc = "loop"
  /\ fs_pos < Len(full)
  /\ LET c == FillIter([subset |-> subset, occurrence |-> occurrence,
                        idx_omit |-> idx_omit, idx_subset |-> idx_subset],
                       At(full, fs_pos), input_to_skip, num_skip, omit)
     IN /\ subset' = c.subset
        /\ occurrence' = c.occurrence
        /\ idx_omit' = c.idx_omit
        /\ idx_subset' = c.idx_subset
  /\ fs_pos' = fs_pos + 1
  /\ UNCHANGED <<fs_pc, input_to_skip, omit>>
  /\ UNCHANGED <<m_pc, inputs, p, unique, ns_i, min_duration, num_skip, full,
                 overhead, overhead_skip, max_rel_mad, total, total_skip, m_i, results,
                 m_ret, sus_calls>>
  /\ UNCHANGED <<st_vars, sus_vars>>

\* end of the range-for
FillExit ==
  /\ fs_pc = "loop"
  /\ ~(fs_pos < Len(full))
  /\ fs_pc' = "done"
  /\ UNCHANGED <<input_to_skip, omit, occurrence, idx_omit, idx_subset, fs_pos>>
  /\ UNCHANGED <<m_vars, st_vars, sus_vars>>

FillNext ==
  \/ FillEnter
  \/ FillStep
  \/ FillExit

FillSpec == FillInit /\ [][FillNext]_vars

\* the step-by-step run ends in one of the subsets the operator gives
FillStepsAgree ==
  fs_pc = "done" =>
    \E b \in SubsetBefore(Len(subset), input_to_skip) :
      subset \in FillSubset(full, input_to_skip, num_skip, b)

-----------------------------------------------------------------------------
(* Claims about FillSubset, checked under FillSpec *)

\* f with the elements at the positions in D left out
Without(f, D) ==
  LET keep == Ascending((1..Len(f)) \ D)
  IN [j \in 1..Len(keep) |-> f[keep[j]]]

-----------------------------------------------------------------------------
(* UniqueInputs, NumSkip, ReplicateInputs *)

\* std::unique on a sorted vector, with the erase
RECURSIVE Dedup(_)
Dedup(f) ==
  IF Len(f) <= 1 THEN f
  ELSE IF f[1] = f[2] THEN Dedup(Tail(f))
  ELSE <<f[1]>> \o Dedup(Tail(f))

UniqueInputs(in) == Dedup(StdSort(in))

\* min_duration = HWY_MIN(min_duration, total - timer_resolution)
NextMinDuration(md, tot, res) == Min(md, Sub(tot, res))

\* num_skip from max_skip = p.precision_divisor and min_duration
NumSkipResult(max_skip, md) ==
  IF md = 0 THEN 0 ELSE ((max_skip + md - 1) % W) \div md

\* in repeated n times, one after the other
RECURSIVE Repeat(_, _)
Repeat(in, n) == IF n = 0 THEN <<>> ELSE in \o Repeat(in, n - 1)

\* the orders std::shuffle can leave a vector holding cnt[v] copies of each v
RECURSIVE Shuffles(_)
Shuffles(cnt) ==
  LET left == {v \in DOMAIN cnt : cnt[v] > 0}
  IN IF left = {} THEN {<<>>}
     ELSE UNION {{<<v>> \o t : t \in Shuffles([cnt EXCEPT ![v] = @ - 1])} : v \in left}

\* mutant of Copies: num_skip is left out
CopiesRatioOnly(par, k) == par.subset_ratio % W

\* p.subset_ratio * num_skip
Copies(par, k) == (par.subset_ratio * k) % W

\* mutant of ReplicateInputs: subset_ratio copies only, whatever num_skip is
ReplicateInputsRatioCopies(in, num_unique, k, par) ==
  Shuffles([v \in Range(in) |-> par.subset_ratio * Count(in, v)])

\* the vectors ReplicateInputs(in, Len(in), num_unique, k, par) can return
ReplicateInputs(in, num_unique, k, par) ==
  IF num_unique = 1
  THEN {[j \in 1..Copies(par, k) |-> At(in, 0)]}
  ELSE LET cat == Repeat(in, Copies(par, k))
       IN Shuffles([v \in Range(cat) |-> Count(cat, v)])

-----------------------------------------------------------------------------
(* Measure, one call of SampleUntilStable per step *)

\* FuncInput values of the caller
InputVals == {1, 2}

\* the caller's input arrays; the empty one violates the precondition
MeasureInputs == {<<>>, <<1>>, <<2>>, <<1, 1>>, <<1, 2>>, <<2, 1>>, <<2, 2>>}

\* the Params fields Measure and its helpers read themselves
MeasureParams == [subset_ratio : {1, 2}, precision_divisor : {1, 2}]

\* estimates SampleUntilStable returns to Measure: any Ticks value is
\* possible, these lie around timer_resolution
Estimates(res) == {Sub(res, 1), res, Add(res, 1)}

\* rel_mad values SampleUntilStable returns to TotalDuration
RelMads == {[num |-> 0, den |-> 1], [num |-> 1, den |-> 2]}

\* HWY_MAX(*max_rel_mad, rel_mad)
MaxDouble(a, b) == IF a.num * b.den < b.num * a.den THEN b ELSE a

\* std::vector<FuncInput>::max_size(): larger requests throw
VectorMaxSize == W \div 16

\* (total - overhead) - (total_skip - overhead_skip)
Duration(tot, ovh, tot_skip, ovh_skip) == Sub(Sub(tot, ovh), Sub(tot_skip, ovh_skip))

\* a Result the caller passed in and Measure has not assigned: its fields hold
\* values no assignment of Measure produces
Unwritten ==
  [input |-> -1, duration |-> -1, num_skip |-> -1,
   variability |-> [num |-> -1, den |-> 1]]

MeasureInit ==
  /\ m_pc = "start"
  /\ inputs \in MeasureInputs
  /\ p \in MeasureParams
  /\ timer_resolution \in TimerResolutions
  /\ unique = <<>>
  /\ ns_i = 0
  /\ min_duration = 0
  /\ num_skip = 0
  /\ full = <<>>
  /\ subset = <<>>
  /\ overhead = 0
  /\ overhead_skip = 0
  /\ max_rel_mad = [num |-> 0, den |-> 1]
  /\ total = 0
  /\ total_skip = 0
  /\ m_i = 0
  /\ results = [j \in 1..Len(inputs) |-> Unwritten]
  /\ m_ret = 0
  /\ sus_calls = 0
  /\ st_pc = "idle"
  /\ st_input = <<>>
  /\ values = <<>>
  /\ cs_p = 0
  /\ idx_begin = 0
  /\ half_count = 0
  /\ mr_idx = 0
  /\ min_range = 0
  /\ min_idx = 0
  /\ mr_begin = 0
  /\ st_reads = {}
  /\ st_ret = 0
  /\ sus_pc = "idle"
  /\ sus_p = <<>>
  /\ seed = 0
  /\ est = 0
  /\ samples_per_eval = 0
  /\ samples = <<>>
  /\ eval = 0
  /\ sus_i = 0
  /\ abs_mad = 0
  /\ rel_mad = [num |-> 0, den |-> 1]
  /\ sus_ret = 0
  /\ rounds = <<>>
  /\ fs_pc = "idle"
  /\ input_to_skip = 0
  /\ omit = <<>>
  /\ occurrence = 0
  /\ idx_omit = 0
  /\ idx_subset = 0
  /\ fs_pos = 0

\* UniqueInputs, and the entry of NumSkip
MeasureEnter ==
  /\ m_pc = "start"
  /\ unique' = UniqueInputs(inputs)
  /\ min_duration' = TicksMax
  /\ ns_i' = 0
  /\ m_pc' = "NumSkip"
  /\ UNCHANGED <<inputs, p, num_skip, full, subset, overhead, overhead_skip,
                 max_rel_mad, total, total_skip, m_i, results, m_ret, sus_calls>>
  /\ UNCHANGED <<st_vars, sus_vars, fs_vars>>

\* NumSkip: SampleUntilStable for one unique input
NumSkipSample ==
  /\ m_pc = "NumSkip"
  /\ ns_i < Len(unique)
  /\ \E tot \in Estimates(timer_resolution) :
       min_duration' = NextMinDuration(min_duration, tot, timer_resolution)
  /\ ns_i' = ns_i + 1
  /\ sus_calls' = sus_calls + 1
  /\ UNCHANGED <<m_pc, inputs, p, unique, num_skip, full, subset, overhead,
                 overhead_skip, max_rel_mad, total, total_skip, m_i, results, m_ret>>
  /\ UNCHANGED <<st_vars, sus_vars, fs_vars>>

\* NumSkip returns; Measure returns 0 when it is 0
NumSkipReturn ==
  /\ m_pc = "NumSkip"
  /\ ~(ns_i < Len(unique))
  /\ num_skip' = NumSkipResult(p.precision_divisor, min_duration)
  /\ IF num_skip' = 0
     THEN /\ m_ret' = 0
          /\ m_pc' = "done"
     ELSE /\ m_pc' = "ReplicateInputs"
          /\ UNCHANGED m_ret
  /\ UNCHANGED <<inputs, p, unique, ns_i, min_duration, full, subset, overhead,
                 overhead_skip, max_rel_mad, total, total_skip, m_i, results, sus_calls>>
  /\ UNCHANGED <<st_vars, sus_vars, fs_vars>>

\* full = ReplicateInputs(...); InputVec subset(full.size() - num_skip)
DoReplicateInputs ==
  /\ m_pc = "ReplicateInputs"
  /\ full' \in ReplicateInputs(inputs, Len(unique), num_skip, p)
  /\ IF Sub(Len(full'), num_skip) > VectorMaxSize
     THEN /\ m_pc' = "threw"
          /\ UNCHANGED subset
     ELSE /\ subset' = [j \in 1..Sub(Len(full'), num_skip) |-> 0]
          /\ m_pc' = "Overhead"
  /\ UNCHANGED <<inputs, p, unique, ns_i, min_duration, num_skip, overhead,
                 overhead_skip, max_rel_mad, total, total_skip, m_i, results, m_ret,
                 sus_calls>>
  /\ UNCHANGED <<st_vars, sus_vars, fs_vars>>

\* overhead = Overhead(arg, &full, p)
DoOverhead ==
  /\ m_pc = "Overhead"
  /\ overhead' \in Estimates(timer_resolution)
  /\ sus_calls' = sus_calls + 1
  /\ m_pc' = "OverheadSkip"
  /\ UNCHANGED <<inputs, p, unique, ns_i, min_duration, num_skip, full, subset,
                 overhead_skip, max_rel_mad, total, total_skip, m_i, results, m_ret>>
  /\ UNCHANGED <<st_vars, sus_vars, fs_vars>>

\* overhead_skip = Overhead(arg, &subset, p), and the first inversion test
DoOverheadSkip ==
  /\ m_pc = "OverheadSkip"
  /\ overhead_skip' \in Estimates(timer_resolution)
  /\ sus_calls' = sus_calls + 1
  /\ IF overhead < overhead_skip'
     THEN /\ m_ret' = 0
          /\ m_pc' = "done"
     ELSE /\ m_pc' = "TotalDuration"
          /\ UNCHANGED m_ret
  /\ UNCHANGED <<inputs, p, unique, ns_i, min_duration, num_skip, full, subset,
                 overhead, max_rel_mad, total, total_skip, m_i, results>>
  /\ UNCHANGED <<st_vars, sus_vars, fs_vars>>

\* max_rel_mad = 0.0; total = TotalDuration(func, arg, &full, p, &max_rel_mad)
DoTotalDuration ==
  /\ m_pc = "TotalDuration"
  /\ total' \in Estimates(timer_resolution)
  /\ \E r \in RelMads : max_rel_mad' = MaxDouble([num |-> 0, den |-> 1], r)
  /\ sus_calls' = sus_calls + 1
  /\ m_i' = 0
  /\ m_pc' = "for"
  /\ UNCHANGED <<inputs, p, unique, ns_i, min_duration, num_skip, full, subset,
                 overhead, overhead_skip, total_skip, results, m_ret>>
  /\ UNCHANGED <<st_vars, sus_vars, fs_vars>>

\* FillSubset(full, unique[i], num_skip, &subset)
DoFillSubset ==
  /\ m_pc = "for"
  /\ m_i < Len(unique)
  /\ subset' \in FillSubset(full, At(unique, m_i), num_skip, subset)
  /\ m_pc' = "TotalSkip"
  /\ UNCHANGED <<inputs, p, unique, ns_i, min_duration, num_skip, full, overhead,
                 overhead_skip, max_rel_mad, total, total_skip, m_i, results, m_ret,
                 sus_calls>>
  /\ UNCHANGED <<st_vars, sus_vars, fs_vars>>

\* total_skip = TotalDuration(...&subset...), the second inversion test, and
\* results[i]
DoTotalSkip ==
  /\ m_pc = "TotalSkip"
  /\ total_skip' \in Estimates(timer_resolution)
  /\ \E r \in RelMads : max_rel_mad' = MaxDouble(max_rel_mad, r)
  /\ sus_calls' = sus_calls + 1
  /\ IF total < total_skip'
     THEN /\ m_ret' = 0
          /\ m_pc' = "done"
          /\ UNCHANGED <<results, m_i>>
     ELSE /\ results' = [results EXCEPT ![m_i + 1] =
                           [input |-> At(unique, m_i),
                            duration |-> Duration(total, overhead, total_skip',
                                                  overhead_skip),
                            num_skip |-> num_skip,
                            variability |-> max_rel_mad']]
          /\ m_i' = m_i + 1
          /\ m_pc' = "for"
          /\ UNCHANGED m_ret
  /\ UNCHANGED <<inputs, p, unique, ns_i, min_duration, num_skip, full, subset,
                 overhead, overhead_skip, total>>
  /\ UNCHANGED <<st_vars, sus_vars, fs_vars>>

\* return unique.size()
MeasureReturn ==
  /\ m_pc = "for"
  /\ ~(m_i < Len(unique))
  /\ m_ret' = Len(unique)
  /\ m_pc' = "done"
  /\ UNCHANGED <<inputs, p, unique, ns_i, min_duration, num_skip, full, subset,
                 overhead, overhead_skip, max_rel_mad, total, total_skip, m_i, results,
                 sus_calls>>
  /\ UNCHANGED <<st_vars, sus_vars, fs_vars>>

MeasureNext ==
  \/ MeasureEnter
  \/ NumSkipSample
  \/ NumSkipReturn
  \/ DoReplicateInputs
  \/ DoOverhead
  \/ DoOverheadSkip
  \/ DoTotalDuration
  \/ DoFillSubset
  \/ DoTotalSkip
  \/ MeasureReturn

MeasureSpec == MeasureInit /\ [][MeasureNext]_vars

-----------------------------------------------------------------------------
(* ReplicateInputs on its own: Measure at the call, for every num_skip >= 1 *)

ReplicateInit ==
  /\ m_pc = "ReplicateInputs"
  /\ inputs \in UNION {[1..n -> InputVals] : n \in 1..MaxInputs}
  /\ p \in MeasureParams
  /\ num_skip \in 1..MaxSkip
  /\ unique = UniqueInputs(inputs)
  /\ ns_i = Len(unique)
  /\ sus_calls = Len(unique)
  /\ timer_resolution = 0
  /\ min_duration = 0
  /\ full = <<>>
  /\ subset = <<>>
  /\ overhead = 0
  /\ overhead_skip = 0
  /\ max_rel_mad = [num |-> 0, den |-> 1]
  /\ total = 0
  /\ total_skip = 0
  /\ m_i = 0
  /\ results = [j \in 1..Len(inputs) |-> Unwritten]
  /\ m_ret = 0
  /\ st_pc = "idle"
  /\ st_input = <<>>
  /\ values = <<>>
  /\ cs_p = 0
  /\ idx_begin = 0
  /\ half_count = 0
  /\ mr_idx = 0
  /\ min_range = 0
  /\ min_idx = 0
  /\ mr_begin = 0
  /\ st_reads = {}
  /\ st_ret = 0
  /\ sus_pc = "idle"
  /\ sus_p = <<>>
  /\ seed = 0
  /\ est = 0
  /\ samples_per_eval = 0
  /\ samples = <<>>
  /\ eval = 0
  /\ sus_i = 0
  /\ abs_mad = 0
  /\ rel_mad = [num |-> 0, den |-> 1]
  /\ sus_ret = 0
  /\ rounds = <<>>
  /\ fs_pc = "idle"
  /\ input_to_skip = 0
  /\ omit = <<>>
  /\ occurrence = 0
  /\ idx_omit = 0
  /\ idx_subset = 0
  /\ fs_pos = 0

ReplicateNext == DoReplicateInputs

ReplicateSpec == ReplicateInit /\ [][ReplicateNext]_vars

-----------------------------------------------------------------------------
(* Claims about Measure and its helpers *)

\* the inversion tests Measure has made so far, on what it has measured
OverheadInverted == m_pc = "done" /\ sus_calls = Len(unique) + 2 /\ overhead < overhead_skip

TotalInverted == m_pc = "done" /\ sus_calls > Len(unique) + 3 /\ total < total_skip

\* C1 (as claimed): Measure ends by returning; it returns 0 exactly when
\* NumSkip returned 0, or overhead < overhead_skip, or total < total_skip for
\* some unique input, and otherwise returns the number of distinct inputs
\* after writing results[i].input = unique[i] for each of them.
C1_ReturnsZeroExactlyOnFailure ==
  /\ m_pc # "threw"
  /\ m_pc = "done" =>
       /\ m_ret = 0 <=> (num_skip = 0 \/ OverheadInverted \/ TotalInverted)
       /\ m_ret # 0 =>
            /\ m_ret = Cardinality(Range(inputs))
            /\ \A i \in 0..(m_ret - 1) :
                 /\ At(results, i) # Unwritten
                 /\ At(results, i).input = At(Ascending(Range(inputs)), i)

\* C2 (as claimed): with num_inputs == 0 Measure returns early: it takes no
\* timing sample, builds neither full nor subset and writes no result.
C2_EmptyInputReturnsEarly ==
  Len(inputs) = 0 =>
    /\ m_pc \in {"start", "NumSkip", "done"}
    /\ sus_calls = 0
    /\ full = <<>>
    /\ subset = <<>>
    /\ m_pc = "done" => m_ret = 0

\* C8 (as claimed): NumSkip returns 0 only when min_duration == 0, and for
\* min_duration >= 1 it returns the ceiling of precision_divisor / min_duration.
C8_NumSkipIsCeiling ==
  m_pc \notin {"start", "NumSkip"} =>
    /\ num_skip = 0 => min_duration = 0
    /\ min_duration >= 1 =>
         /\ num_skip * min_duration >= p.precision_divisor
         /\ (num_skip - 1) * min_duration < p.precision_divisor

\* C9: with one unique input ReplicateInputs returns subset_ratio * num_skip
\* copies of inputs[0]; otherwise a vector of subset_ratio * num_skip *
\* num_inputs elements in which every value occurs subset_ratio * num_skip
\* times as often as in inputs.
C9_ReplicateInputsCounts ==
  m_pc \in {"Overhead", "threw"} =>
    IF Len(unique) = 1
    THEN /\ Len(full) = p.subset_ratio * num_skip
         /\ \A j \in 1..Len(full) : full[j] = At(inputs, 0)
    ELSE /\ Len(full) = p.subset_ratio * num_skip * Len(inputs)
         /\ \A v \in InputVals :
              Count(full, v) = p.subset_ratio * num_skip * Count(inputs, v)

\* C9 witness: two unique inputs, replicated four times and left in an order
\* that is not the plain concatenation.
C9_Witness ==
  /\ m_pc = "Overhead"
  /\ Len(unique) = 2
  /\ p.subset_ratio * num_skip = 4
  /\ Len(full) = 8
  /\ full # Repeat(inputs, 4)
  /\ Count(full, 1) = 4

-----------------------------------------------------------------------------
(* MinRange on its own: every sorted array, idx_begin and half_count >= 1   *)
(* with idx_begin + 2 * half_count <= length                                *)

MinRangeCalls ==
  {c \in [sorted : UNION {NonDecr(n) : n \in 0..MaxSortedLen},
          idx_begin : 0..MaxSortedLen,
          half_count : 1..MaxSortedLen] :
     c.idx_begin + 2 * c.half_count <= Len(c.sorted)}

MinRangeInit ==
  /\ \E c \in MinRangeCalls :
       /\ st_input = c.sorted
       /\ values = c.sorted
       /\ idx_begin = c.idx_begin
       /\ half_count = c.half_count
       /\ mr_begin = c.idx_begin
       /\ mr_idx = c.idx_begin
  /\ min_range = TicksMax
  /\ min_idx = 0
  /\ st_pc = "MinRange"
  /\ cs_p = 0
  /\ st_reads = {}
  /\ st_ret = 0
  /\ sus_pc = "idle"
  /\ sus_p = <<>>
  /\ timer_resolution = 0
  /\ seed = 0
  /\ est = 0
  /\ samples_per_eval = 0
  /\ samples = <<>>
  /\ eval = 0
  /\ sus_i = 0
  /\ abs_mad = 0
  /\ rel_mad = [num |-> 0, den |-> 1]
  /\ sus_ret = 0
  /\ rounds = <<>>
  /\ m_pc = "idle"
  /\ inputs = <<>>
  /\ p = <<>>
  /\ unique = <<>>
  /\ ns_i = 0
  /\ min_duration = 0
  /\ num_skip = 0
  /\ full = <<>>
  /\ subset = <<>>
  /\ overhead = 0
  /\ overhead_skip = 0
  /\ max_rel_mad = [num |-> 0, den |-> 1]
  /\ total = 0
  /\ total_skip = 0
  /\ m_i = 0
  /\ results = <<>>
  /\ m_ret = 0
  /\ sus_calls = 0
  /\ fs_pc = "idle"
  /\ input_to_skip = 0
  /\ omit = <<>>
  /\ occurrence = 0
  /\ idx_omit = 0
  /\ idx_subset = 0
  /\ fs_pos = 0

MinRangeNext ==
  \/ MinRangeStep
  \/ MinRangeReturn

MinRangeSpec == MinRangeInit /\ [][MinRangeNext]_vars

\* sorted[i + half_count] - sorted[i] of the call in progress
RangeAt(i) == Sub(At(values, i + half_count), At(values, i))

\* C11 (as claimed): the index MinRange returns lies in
\* [idx_begin, idx_begin + half_count), no index of that interval has a
\* smaller range, and no lower index of it has the same range.
C11_MinRangeReturnsLowestMinimizer ==
  (st_pc = "MinRange" /\ ~MinRangeContinue(mr_idx, mr_begin, half_count)) =>
    /\ min_idx >= mr_begin
    /\ min_idx < mr_begin + half_count
    /\ \A j \in mr_begin..(mr_begin + half_count - 1) :
         /\ RangeAt(min_idx) <= RangeAt(j)
         /\ RangeAt(j) = RangeAt(min_idx) => min_idx <= j

-----------------------------------------------------------------------------
(* Claims about Measure's per-input loop, checked under MeasureSpec *)

\* the cursors FillSubset would end with on the current full and subset, for
\* each omit it may draw
FillEnds ==
  {FillLoop([subset |-> subset, occurrence |-> OccurrenceInit, idx_omit |-> 0,
             idx_subset |-> 0], full, 0, At(unique, m_i), num_skip, om) :
     om \in OmitChoices(Count(full, At(unique, m_i)), num_skip)}

\* C12: at every call FillSubset(full, unique[i], num_skip, &subset) of
\* Measure's loop, full holds at least num_skip occurrences of unique[i] and
\* subset.size() == full.size() - num_skip; the call writes every element of
\* subset, leaving full without num_skip occurrences of unique[i].
C12_FillSubsetPreconditionHolds ==
  /\ (m_pc = "for" /\ m_i < Len(unique)) =>
       /\ Len(inputs) >= 1 /\ num_skip >= 1 /\ p.subset_ratio >= 1
       /\ Count(full, At(unique, m_i)) >= num_skip
       /\ Len(subset) = Len(full) - num_skip
       /\ \A c \in FillEnds : c.idx_subset = Len(subset)
  /\ m_pc = "TotalSkip" =>
       /\ Len(subset) = Len(full) - num_skip
       /\ \A v \in InputVals :
            Count(subset, v) =
              Count(full, v) - (IF v = At(unique, m_i) THEN num_skip ELSE 0)

\* C12 witness: the second call of the loop, with num_skip == 2, has replaced
\* the subset the first call left, which lacked the other input.
C12_Witness ==
  /\ m_pc = "TotalSkip"
  /\ m_i = 1
  /\ num_skip = 2
  /\ Len(unique) = 2
  /\ Count(subset, At(unique, 0)) = Count(full, At(unique, 0))
  /\ Count(subset, At(unique, 1)) = Count(full, At(unique, 1)) - 2

\* C13 (as claimed): the duration of every result Measure writes, after
\* overhead >= overhead_skip and total >= total_skip, equals the integer
\* (total - total_skip) - (overhead - overhead_skip) and is not negative.
C13_DurationDoesNotWrap ==
  (m_pc = "for" /\ m_i >= 1) =>
    /\ overhead >= overhead_skip
    /\ total >= total_skip
    /\ At(results, m_i - 1).duration = (total - total_skip) - (overhead - overhead_skip)
    /\ (total - total_skip) - (overhead - overhead_skip) >= 0

====
